---- MODULE Spec2Model ----
(***************************************************************************)
(* A model of the kimi-agent-sdk core: the MessageAggregator               *)
(* (_aggregator.py), the Session single-flight wrapper (_session.py) and   *)
(* the high-level prompt pipeline with its approval gate (_prompt.py).     *)
(***************************************************************************)
EXTENDS Integers, Sequences, FiniteSets, TLC

(***************************************************************************)
(* Bounds of the model.                                                    *)
(***************************************************************************)
\* the number of non-boundary events fed to the aggregator within one step
MaxStepEvents == 4
\* the number of events the run-loop yields within one Session.prompt call
MaxRunEvents == 2
\* the number of events the run-loop yields to the high-level prompt pipeline
MaxPipeEvents == 3
\* the most events of one stream fed to an aggregator before flush()
MaxStreamEvents == 5

None == "None"

(***************************************************************************)
(* Wire events.  Text is a sequence of characters, so that concatenation   *)
(* and its order are visible.                                              *)
(***************************************************************************)
Frags == {<<"a">>, <<" ">>}
ToolIds == {"call-1", "call-2"}
Payloads == {"ok", "err"}
Chunks == {<<"x">>}

Ev(type, kind, text, id, payload) ==
    [type |-> type, kind |-> kind, text |-> text, id |-> id, payload |-> payload]

StepBegin == Ev("StepBegin", None, <<>>, None, None)
StepInterrupted == Ev("StepInterrupted", None, <<>>, None, None)
TextPart(t) == Ev("ContentPart", "text", t, None, None)
ThinkPart(t) == Ev("ContentPart", "think", t, None, None)
\* a tool call as started: id and the initial argument string
ToolCall(id, args) == Ev("ToolCall", None, args, id, None)
\* an argument delta; id is None when the delta carries no id
ToolCallPart(id, chunk) == Ev("ToolCallPart", None, chunk, id, None)
ToolResult(id, p) == Ev("ToolResult", None, <<>>, id, p)
\* any wire message the aggregator has no case for (e.g. a status update)
OtherEvent == Ev("StatusUpdate", None, <<>>, None, None)

Boundaries == {StepBegin, StepInterrupted}
ContentEvents == {TextPart(t) : t \in Frags} \cup {ThinkPart(<<"t">>)}
ToolEvents ==
    {ToolCall(i, <<>>) : i \in ToolIds}
    \cup {ToolCallPart(i, c) : i \in {None, "call-1"}, c \in Chunks}
    \cup {ToolResult("call-1", p) : p \in Payloads}
    \cup {ToolResult("call-2", "ok")}
StepEvents == ContentEvents \cup ToolEvents \cup {OtherEvent}

IsBoundary(msg) == msg.type \in {"StepBegin", "StepInterrupted"}
IsToolEvent(msg) == msg.type \in {"ToolCall", "ToolCallPart", "ToolResult"}

(***************************************************************************)
(* State.                                                                  *)
(***************************************************************************)
VARIABLES
    \* MessageAggregator fields
    _final_message_only, _content_buffer, _tool_call_buffer, _last_tool_call,
    \* the value returned by the last feed()/flush() call, and which call it was
    out, lastOp,
    \* history: the events fed since the buffers were last reset, and the
    \* events of the step that the last flush or boundary closed
    hist, flushed,
    \* a second aggregator of the same policy that is fed the same events
    \* with the tool-call events left out, and its last return value
    shadow, shadowOut,
    \* Session fields: _closed, and _cancel_event as None or the prompt call
    \* whose asyncio.Event it refers to
    _closed, _cancel_event,
    \* per Session.prompt call: whether the Event it created is set, where the
    \* generator stands, how it ended for its consumer, whether it called
    \* the run-loop, and how many events it has yielded
    is_set, pc, outcome, run_called, yielded,
    \* close(): the number of toolset cleanup() calls made, and whether a
    \* close() is suspended awaiting the cleanup
    cleanup_calls, close_pending,
    \* history: the last Session operation, whether cancel() or close()
    \* signalled each call while it was in flight, and whether cancel() was
    \* ever called with nothing in flight
    sessOp, signalled, idleCancel,
    \* what the session's toolset offers as cleanup: nothing, a plain
    \* function, or one that returns an awaitable
    toolset_cleanup,
    \* prompt(): its yolo and approval_handler_fn arguments (the latter as
    \* given or not), where the generator stands, and how it ended for its
    \* consumer
    yolo, handler_given, ppc, presult,
    \* prompt(): whether Session.create was called, the messages of the last
    \* feed() or flush() not yet taken by the consumer, and the outcome that
    \* is leaving the async-with block
    session_created, pending, exit_result,
    \* the ApprovalRequests that reached the gate, in order: the state each
    \* was in when its handler returned, and its state now
    reqs,
    \* history of prompt(): the events session.prompt yielded, the events
    \* passed to feed(), the messages feed() and flush() returned, and the
    \* messages the consumer was given, each in order
    pulled, fed, emitted, given

aggVars == <<_final_message_only, _content_buffer, _tool_call_buffer, _last_tool_call,
             out, lastOp, hist, flushed, shadow, shadowOut>>

sessVars == <<_closed, _cancel_event, is_set, pc, outcome, run_called, yielded,
              cleanup_calls, close_pending, sessOp, signalled, idleCancel,
              toolset_cleanup>>

pipeVars == <<yolo, handler_given, ppc, presult, session_created, pending,
              exit_result, reqs, pulled, fed, emitted, given>>

vars == <<aggVars, sessVars, pipeVars>>

(***************************************************************************)
(* Messages.                                                               *)
(***************************************************************************)
\* Message(role="assistant", content=..., tool_calls=... or None): an empty
\* tool-call list is normalised to None, written <<>> here
AssistantMessage(content, tool_calls) ==
    [role |-> "assistant", content |-> content, tool_calls |-> tool_calls,
     tool_call_id |-> None]

\* tool_result_to_message(result): a tool-role message for the result's call
tool_result_to_message(result) ==
    [role |-> "tool", content |-> <<[kind |-> "text", text |-> <<result.payload>>]>>,
     tool_calls |-> <<>>, tool_call_id |-> result.tool_call_id]

RECURSIVE extract_text(_)
\* Message.extract_text(): the texts of the text parts, joined
extract_text(content) ==
    IF content = <<>> THEN <<>>
    ELSE (IF Head(content).kind = "text" THEN Head(content).text ELSE <<>>)
         \o extract_text(Tail(content))

(***************************************************************************)
(* MessageAggregator.                                                      *)
(***************************************************************************)
\* ContentPart.merge_in_place(part): succeeds on a part of the same kind and
\* concatenates; fails otherwise and leaves the part alone
merge_in_place(last, part) ==
    IF last.kind = part.kind
    THEN [ok |-> TRUE, part |-> [kind |-> last.kind, text |-> last.text \o part.text]]
    ELSE [ok |-> FALSE, part |-> last]

\* variant: _merge_content that never merges
_merge_content_AlwaysAppend(buffer, part) == Append(buffer, part)

_merge_content(buffer, part) ==
    IF buffer = <<>> THEN Append(buffer, part)
    ELSE LET m == merge_in_place(buffer[Len(buffer)], part) IN
         IF ~m.ok THEN Append(buffer, part)
         ELSE [buffer EXCEPT ![Len(buffer)] = m.part]

NewAggregator(fmo) ==
    [_final_message_only |-> fmo, _content_buffer |-> <<>>,
     _tool_call_buffer |-> <<>>, _last_tool_call |-> None]

\* variant: _reset_buffers that clears the content buffer alone
_reset_buffers_KeepsCalls(self) == [self EXCEPT !._content_buffer = <<>>]

_reset_buffers(self) ==
    [self EXCEPT !._content_buffer = <<>>, !._tool_call_buffer = <<>>,
                 !._last_tool_call = None]

\* the insertion-ordered dict: an existing key keeps its place and gets the
\* new value, a new key goes to the end
DictSet(buf, state) ==
    IF \E i \in 1..Len(buf) : buf[i].id = state.id
    THEN [i \in 1..Len(buf) |-> IF buf[i].id = state.id THEN state ELSE buf[i]]
    ELSE Append(buf, state)

DictHas(buf, id) == \E i \in 1..Len(buf) : buf[i].id = id

_flush_final_only(self) ==
    IF self._content_buffer = <<>> THEN [self |-> self, ret |-> <<>>]
    ELSE LET text == extract_text(self._content_buffer) IN
         [self |-> _reset_buffers(self),
          ret |-> IF text = <<>> THEN <<>>
                  ELSE <<AssistantMessage(<<[kind |-> "text", text |-> text]>>, <<>>)>>]

Reverse(s) == [i \in 1..Len(s) |-> s[Len(s) + 1 - i]]

\* variant: the answered calls in the reverse of the dict's order
WithResult_Reversed(buf) == Reverse(SelectSeq(buf, LAMBDA s : s.tool_result # None))

\* the states of the tracker that have a result, in the dict's order
WithResult(buf) == SelectSeq(buf, LAMBDA s : s.tool_result # None)

\* variant: _flush_full listing every tracked call in the assistant message
_flush_full_AllCalls(self) ==
    IF self._content_buffer = <<>> /\ self._tool_call_buffer = <<>>
    THEN [self |-> self, ret |-> <<>>]
    ELSE LET done == WithResult(self._tool_call_buffer)
             all == self._tool_call_buffer
             tool_calls == [i \in 1..Len(all) |->
                               [id |-> all[i].id, arguments |-> all[i].arguments]]
         IN [self |-> _reset_buffers(self),
             ret |-> <<AssistantMessage(self._content_buffer, tool_calls)>>
                     \o [i \in 1..Len(done) |->
                            tool_result_to_message(
                                [tool_call_id |-> done[i].id,
                                 payload |-> done[i].tool_result])]]

\* variant: _flush_full without the check for empty buffers
_flush_full_NoEmptyCheck(self) ==
    LET done == WithResult(self._tool_call_buffer)
        tool_calls == [i \in 1..Len(done) |->
                          [id |-> done[i].id, arguments |-> done[i].arguments]]
    IN [self |-> _reset_buffers(self),
        ret |-> <<AssistantMessage(self._content_buffer, tool_calls)>>
                \o [i \in 1..Len(done) |->
                       tool_result_to_message(
                           [tool_call_id |-> done[i].id,
                            payload |-> done[i].tool_result])]]

\* variant: _flush_full whose assistant message lists no tool call
_flush_full_CallsOmitted(self) ==
    IF self._content_buffer = <<>> /\ self._tool_call_buffer = <<>>
    THEN [self |-> self, ret |-> <<>>]
    ELSE LET done == WithResult(self._tool_call_buffer)
         IN [self |-> _reset_buffers(self),
             ret |-> <<AssistantMessage(self._content_buffer, <<>>)>>
                     \o [i \in 1..Len(done) |->
                            tool_result_to_message(
                                [tool_call_id |-> done[i].id,
                                 payload |-> done[i].tool_result])]]

\* Message(...) takes a copy of the content list, so the _reset_buffers that
\* follows does not empty the message (the test reads "hello" back from it)
_flush_full(self) ==
    IF self._content_buffer = <<>> /\ self._tool_call_buffer = <<>>
    THEN [self |-> self, ret |-> <<>>]
    ELSE LET done == WithResult(self._tool_call_buffer)
             tool_calls == [i \in 1..Len(done) |->
                               [id |-> done[i].id, arguments |-> done[i].arguments]]
             tool_results == [i \in 1..Len(done) |->
                               [tool_call_id |-> done[i].id,
                                payload |-> done[i].tool_result]]
         IN [self |-> _reset_buffers(self),
             ret |-> <<AssistantMessage(self._content_buffer, tool_calls)>>
                     \o [i \in 1..Len(tool_results) |->
                            tool_result_to_message(tool_results[i])]]

flush(self) ==
    IF self._final_message_only THEN _flush_final_only(self) ELSE _flush_full(self)

\* feed: case StepBegin() | StepInterrupted()
\* variant: a boundary that keeps the buffers under the final-only policy
feed_boundary_Keeps(self) ==
    IF self._final_message_only THEN [self |-> self, ret |-> <<>>] ELSE flush(self)

feed_boundary(self) ==
    IF self._final_message_only
    THEN [self |-> _reset_buffers(self), ret |-> <<>>]
    ELSE flush(self)

\* variant: a content part that replaces the buffer
feed_content_Replaces(self, msg) ==
    [self |-> [self EXCEPT !._content_buffer = <<[kind |-> msg.kind, text |-> msg.text]>>],
     ret |-> <<>>]

\* feed: case ContentPart()
feed_content(self, msg) ==
    [self |-> [self EXCEPT !._content_buffer =
                  _merge_content(@, [kind |-> msg.kind, text |-> msg.text])],
     ret |-> <<>>]

\* variant: a tool call tracked under either policy
feed_tool_call_Buffers(self, msg) ==
    [self |-> [self EXCEPT
         !._tool_call_buffer =
             DictSet(@, [id |-> msg.id, arguments |-> msg.text, tool_result |-> None]),
         !._last_tool_call = msg.id],
     ret |-> <<>>]

\* feed: case ToolCall()
feed_tool_call(self, msg) ==
    IF self._final_message_only THEN [self |-> self, ret |-> <<>>]
    ELSE [self |-> [self EXCEPT
             !._tool_call_buffer =
                 DictSet(@, [id |-> msg.id, arguments |-> msg.text,
                             tool_result |-> None]),
             !._last_tool_call = msg.id],
          ret |-> <<>>]

\* variant: a delta that names a tracked call goes to that call
feed_tool_call_part_ById(self, msg) ==
    IF self._final_message_only THEN [self |-> self, ret |-> <<>>]
    ELSE IF self._last_tool_call = None THEN [self |-> self, ret |-> <<>>]
    ELSE LET target == IF msg.id # None /\ DictHas(self._tool_call_buffer, msg.id)
                       THEN msg.id ELSE self._last_tool_call
         IN [self |-> [self EXCEPT !._tool_call_buffer =
                [i \in 1..Len(@) |->
                    IF @[i].id = target
                    THEN [@[i] EXCEPT !.arguments = @ \o msg.text]
                    ELSE @[i]]],
             ret |-> <<>>]

\* feed: case ToolCallPart(); ToolCall.merge_in_place appends the chunk to
\* the arguments of the last started call, whatever id the part names
feed_tool_call_part(self, msg) ==
    IF self._final_message_only THEN [self |-> self, ret |-> <<>>]
    ELSE IF self._last_tool_call = None THEN [self |-> self, ret |-> <<>>]
    ELSE [self |-> [self EXCEPT !._tool_call_buffer =
             [i \in 1..Len(@) |->
                 IF @[i].id = self._last_tool_call
                 THEN [@[i] EXCEPT !.arguments = @ \o msg.text]
                 ELSE @[i]]],
          ret |-> <<>>]

\* variant: a result with an unknown id tracked as a call of its own
feed_tool_result_Creates(self, msg) ==
    IF self._final_message_only THEN [self |-> self, ret |-> <<>>]
    ELSE [self |-> [self EXCEPT !._tool_call_buffer =
             IF DictHas(@, msg.id)
             THEN [i \in 1..Len(@) |->
                     IF @[i].id = msg.id
                     THEN [@[i] EXCEPT !.tool_result = msg.payload]
                     ELSE @[i]]
             ELSE Append(@, [id |-> msg.id, arguments |-> <<>>,
                             tool_result |-> msg.payload])],
          ret |-> <<>>]

\* feed: case ToolResult()
feed_tool_result(self, msg) ==
    IF self._final_message_only THEN [self |-> self, ret |-> <<>>]
    ELSE IF ~DictHas(self._tool_call_buffer, msg.id) THEN [self |-> self, ret |-> <<>>]
    ELSE [self |-> [self EXCEPT !._tool_call_buffer =
             [i \in 1..Len(@) |->
                 IF @[i].id = msg.id
                 THEN [@[i] EXCEPT !.tool_result = msg.payload]
                 ELSE @[i]]],
          ret |-> <<>>]

feed(self, msg) ==
    CASE IsBoundary(msg) -> feed_boundary(self)
      [] msg.type = "ContentPart" -> feed_content(self, msg)
      [] msg.type = "ToolCall" -> feed_tool_call(self, msg)
      [] msg.type = "ToolCallPart" -> feed_tool_call_part(self, msg)
      [] msg.type = "ToolResult" -> feed_tool_result(self, msg)
      [] OTHER -> [self |-> self, ret |-> <<>>]

Self ==
    [_final_message_only |-> _final_message_only, _content_buffer |-> _content_buffer,
     _tool_call_buffer |-> _tool_call_buffer, _last_tool_call |-> _last_tool_call]

SetSelf(s) ==
    /\ _final_message_only' = s._final_message_only
    /\ _content_buffer' = s._content_buffer
    /\ _tool_call_buffer' = s._tool_call_buffer
    /\ _last_tool_call' = s._last_tool_call

(***************************************************************************)
(* Session: the single-flight wrapper.  A Session.prompt call is an async  *)
(* generator: its body runs from the first pull, up to each yield.         *)
(***************************************************************************)
Calls == {"p1", "p2", "p3"}

\* Session.__init__
SessFields ==
    /\ _closed = FALSE
    /\ _cancel_event = None
    /\ is_set = [g \in Calls |-> FALSE]
    /\ pc = [g \in Calls |-> "new"]
    /\ outcome = [g \in Calls |-> "none"]
    /\ run_called = [g \in Calls |-> FALSE]
    /\ yielded = [g \in Calls |-> 0]
    /\ cleanup_calls = 0
    /\ close_pending = FALSE
    /\ sessOp = "init"
    /\ signalled = [g \in Calls |-> "no"]
    /\ idleCancel = FALSE

\* prompt() not yet pulled
PipeFields(y, h) ==
    /\ yolo = y
    /\ handler_given = h
    /\ ppc = "new"
    /\ presult = "none"
    /\ session_created = FALSE
    /\ pending = <<>>
    /\ exit_result = "none"
    /\ reqs = <<>>
    /\ pulled = <<>>
    /\ fed = <<>>
    /\ emitted = <<>>
    /\ given = <<>>

InFlight == {g \in Calls : pc[g] = "running"}

\* KimiCLI.run under the cancellation contract: once the call's Event is
\* set, the run-loop ends in no other way than by raising RunCancelled
RunLoopObservedCancel(g) == is_set[g]

\* variant: a finally clause that leaves the Event reference in place
prompt_finally_Keeps(g) == _cancel_event

\* the finally clause of Session.prompt
prompt_finally(g) == IF _cancel_event = g THEN None ELSE _cancel_event

\* variant: a prompt that starts with a flag an earlier cancel() has set
prompt_accept_StaleFlag(g) ==
    /\ is_set' = [is_set EXCEPT ![g] = \E h \in Calls : is_set[h] \/ idleCancel]
    /\ _cancel_event' = g
    /\ run_called' = [run_called EXCEPT ![g] = TRUE]
    /\ pc' = [pc EXCEPT ![g] = "running"]
    /\ sessOp' = "prompt_accepted"
    /\ UNCHANGED outcome

\* Session.prompt past its two checks: a new Event, stored in the session,
\* and the run-loop called with it
prompt_accept(g) ==
    /\ is_set' = [is_set EXCEPT ![g] = FALSE]
    /\ _cancel_event' = g
    /\ run_called' = [run_called EXCEPT ![g] = TRUE]
    /\ pc' = [pc EXCEPT ![g] = "running"]
    /\ sessOp' = "prompt_accepted"
    /\ UNCHANGED outcome

\* variant: a rejected prompt that clears the session's Event reference
prompt_reject_ClearsFlag(g, why) ==
    /\ pc' = [pc EXCEPT ![g] = "ended"]
    /\ outcome' = [outcome EXCEPT ![g] = why]
    /\ sessOp' = "prompt_rejected"
    /\ _cancel_event' = None
    /\ UNCHANGED <<is_set, run_called>>

\* Session.prompt failing one of its two checks with a RuntimeError
prompt_reject(g, why) ==
    /\ pc' = [pc EXCEPT ![g] = "ended"]
    /\ outcome' = [outcome EXCEPT ![g] = why]
    /\ sessOp' = "prompt_rejected"
    /\ UNCHANGED <<is_set, _cancel_event, run_called>>

\* variant: Session.prompt without the already-running check
PromptStart_NoRunningCheck(g) ==
    /\ pc[g] = "new"
    /\ IF _closed THEN prompt_reject(g, "RuntimeError_closed")
       ELSE prompt_accept(g)
    /\ UNCHANGED <<_closed, yielded, cleanup_calls, close_pending, signalled, idleCancel,
                   toolset_cleanup>>

\* variant: Session.prompt without the closed check
PromptStart_NoClosedCheck(g) ==
    /\ pc[g] = "new"
    /\ IF _cancel_event # None THEN prompt_reject(g, "RuntimeError_running")
       ELSE prompt_accept(g)
    /\ UNCHANGED <<_closed, yielded, cleanup_calls, close_pending, signalled, idleCancel,
                   toolset_cleanup>>

\* the first pull of a Session.prompt generator
PromptStart(g) ==
    /\ pc[g] = "new"
    /\ IF _closed THEN prompt_reject(g, "RuntimeError_closed")
       ELSE IF _cancel_event # None THEN prompt_reject(g, "RuntimeError_running")
       ELSE prompt_accept(g)
    /\ UNCHANGED <<_closed, yielded, cleanup_calls, close_pending, signalled, idleCancel,
                   toolset_cleanup>>

\* the run-loop yields an event and Session.prompt yields it on
run_yield(g) ==
    /\ pc[g] = "running"
    /\ yielded' = [yielded EXCEPT ![g] = @ + 1]
    /\ sessOp' = "yield"
    /\ UNCHANGED <<_closed, _cancel_event, is_set, pc, outcome, run_called,
                   cleanup_calls, close_pending, signalled, idleCancel,
                   toolset_cleanup>>

RunYield(g) == yielded[g] < MaxRunEvents /\ run_yield(g)

\* Session.prompt's generator ends with the run-loop's own outcome, through
\* the finally clause
prompt_end(g, how) ==
    /\ pc[g] = "running"
    /\ pc' = [pc EXCEPT ![g] = "ended"]
    /\ outcome' = [outcome EXCEPT ![g] = how]
    /\ _cancel_event' = prompt_finally(g)
    /\ UNCHANGED <<_closed, is_set, run_called, yielded, cleanup_calls, close_pending,
                   signalled, idleCancel,
                   toolset_cleanup>>

\* the run-loop's stream ends
RunEnd(g) ==
    /\ ~RunLoopObservedCancel(g)
    /\ prompt_end(g, "completed")
    /\ sessOp' = "end"

\* the run-loop raises an upstream error
RunFail(g) ==
    /\ ~RunLoopObservedCancel(g)
    /\ prompt_end(g, "error")
    /\ sessOp' = "fail"

\* the run-loop, its Event set, raises RunCancelled
RunCancelled(g) ==
    /\ RunLoopObservedCancel(g)
    /\ prompt_end(g, "RunCancelled")
    /\ sessOp' = "cancelled"

\* what cancel() and close() do to the Event the session refers to
set_event ==
    /\ is_set' = [g \in Calls |-> is_set[g] \/ _cancel_event = g]

\* variant: cancel() that leaves the Event alone
Cancel_NoSet ==
    /\ sessOp' = "cancel"
    /\ signalled' = [g \in Calls |->
                       IF _cancel_event = g /\ signalled[g] = "no" THEN "cancel"
                       ELSE signalled[g]]
    /\ idleCancel' = (idleCancel \/ _cancel_event = None)
    /\ UNCHANGED <<_closed, _cancel_event, is_set, pc, outcome, run_called, yielded,
                   cleanup_calls, close_pending, toolset_cleanup>>

\* Session.cancel
Cancel ==
    /\ IF _cancel_event # None THEN set_event ELSE UNCHANGED is_set
    /\ sessOp' = "cancel"
    /\ signalled' = [g \in Calls |->
                       IF _cancel_event = g /\ signalled[g] = "no" THEN "cancel"
                       ELSE signalled[g]]
    /\ idleCancel' = (idleCancel \/ _cancel_event = None)
    /\ UNCHANGED <<_closed, _cancel_event, pc, outcome, run_called, yielded,
                   cleanup_calls, close_pending, toolset_cleanup>>

CleanupKinds == {"none", "sync", "async"}

\* variant: close() without the check of _closed at its head
Close_NoClosedCheck ==
    /\ cleanup_calls < 3
    /\ _closed' = TRUE
    /\ IF _cancel_event # None THEN set_event ELSE UNCHANGED is_set
    /\ signalled' = [g \in Calls |->
                       IF _cancel_event = g /\ signalled[g] = "no" THEN "close"
                       ELSE signalled[g]]
    /\ cleanup_calls' = IF toolset_cleanup = "none" THEN cleanup_calls
                        ELSE cleanup_calls + 1
    /\ close_pending' = (toolset_cleanup = "async")
    /\ sessOp' = "close"
    /\ UNCHANGED <<_cancel_event, pc, outcome, run_called, yielded, idleCancel,
                   toolset_cleanup>>

\* variant: close() that leaves the Event of the call in flight alone
Close_NoSignal ==
    /\ IF _closed
       THEN /\ sessOp' = "close_noop"
            /\ UNCHANGED <<_closed, cleanup_calls, close_pending, signalled>>
       ELSE /\ _closed' = TRUE
            /\ signalled' = [g \in Calls |->
                               IF _cancel_event = g /\ signalled[g] = "no" THEN "close"
                               ELSE signalled[g]]
            /\ cleanup_calls' = IF toolset_cleanup = "none" THEN cleanup_calls
                                ELSE cleanup_calls + 1
            /\ close_pending' = (toolset_cleanup = "async")
            /\ sessOp' = "close"
    /\ UNCHANGED <<_cancel_event, is_set, pc, outcome, run_called, yielded, idleCancel,
                   toolset_cleanup>>

\* Session.close up to its await: a closed session returns at once;
\* otherwise the session is marked closed, the Event (if any) is set, and
\* the toolset's cleanup, when it has one, is called and, when it is
\* awaitable, awaited
Close ==
    /\ IF _closed
       THEN /\ sessOp' = "close_noop"
            /\ UNCHANGED <<_closed, is_set, cleanup_calls, close_pending, signalled>>
       ELSE /\ _closed' = TRUE
            /\ IF _cancel_event # None THEN set_event ELSE UNCHANGED is_set
            /\ signalled' = [g \in Calls |->
                               IF _cancel_event = g /\ signalled[g] = "no" THEN "close"
                               ELSE signalled[g]]
            /\ cleanup_calls' = IF toolset_cleanup = "none" THEN cleanup_calls
                                ELSE cleanup_calls + 1
            /\ close_pending' = (toolset_cleanup = "async")
            /\ sessOp' = "close"
    /\ UNCHANGED <<_cancel_event, pc, outcome, run_called, yielded, idleCancel,
                   toolset_cleanup>>

\* the awaited cleanup completes and close() returns
CloseReturn ==
    /\ close_pending
    /\ close_pending' = FALSE
    /\ sessOp' = "close_return"
    /\ UNCHANGED <<_closed, _cancel_event, is_set, pc, outcome, run_called, yielded,
                   cleanup_calls, signalled, idleCancel,
                   toolset_cleanup>>

(***************************************************************************)
(* The aggregator driven directly: any event sequence, then flush().       *)
(***************************************************************************)
AggFields(fmo) ==
    /\ _final_message_only = fmo
    /\ _content_buffer = <<>>
    /\ _tool_call_buffer = <<>>
    /\ _last_tool_call = None
    /\ out = <<>>
    /\ lastOp = "init"
    /\ hist = <<>>
    /\ flushed = <<>>
    /\ shadow = NewAggregator(_final_message_only)
    /\ shadowOut = <<>>

AggInit ==
    /\ \E fmo \in BOOLEAN : AggFields(fmo)
    /\ SessFields /\ toolset_cleanup = "none"
    /\ PipeFields(TRUE, FALSE)

\* one feed(msg) call on the aggregator
DoFeed(msg) ==
    /\ LET r == feed(Self, msg)
           sr == IF IsToolEvent(msg) THEN [self |-> shadow, ret |-> <<>>]
                 ELSE feed(shadow, msg)
       IN /\ SetSelf(r.self)
          /\ out' = r.ret
          /\ shadow' = sr.self
          /\ shadowOut' = sr.ret
    /\ lastOp' = IF IsBoundary(msg) THEN "boundary" ELSE "feed"
    /\ hist' = IF IsBoundary(msg) THEN <<>> ELSE Append(hist, msg)
    /\ flushed' = IF IsBoundary(msg) THEN hist ELSE <<>>

\* one flush() call on the aggregator
DoFlush ==
    /\ LET r == flush(Self)
           sr == flush(shadow)
       IN /\ SetSelf(r.self)
          /\ out' = r.ret
          /\ shadow' = sr.self
          /\ shadowOut' = sr.ret
    /\ lastOp' = "flush"
    /\ hist' = <<>>
    /\ flushed' = hist

\* feed(msg) for an event that is not a step boundary
FeedEvent ==
    \E msg \in StepEvents :
        /\ Len(hist) < MaxStepEvents
        /\ DoFeed(msg)
        /\ UNCHANGED <<sessVars, pipeVars>>

\* feed(StepBegin) or feed(StepInterrupted)
FeedBoundary ==
    \E msg \in Boundaries :
        /\ DoFeed(msg)
        /\ UNCHANGED <<sessVars, pipeVars>>

\* the terminal flush()
Flush ==
    /\ DoFlush
    /\ UNCHANGED <<sessVars, pipeVars>>

AggNext == FeedEvent \/ FeedBoundary \/ Flush

AggSpec == AggInit /\ [][AggNext]_vars

(***************************************************************************)
(* The Session driven by its callers: prompt calls, cancel() and close()   *)
(* in any interleaving.                                                    *)
(***************************************************************************)
SessInit ==
    /\ AggFields(FALSE)
    /\ SessFields /\ toolset_cleanup \in CleanupKinds
    /\ PipeFields(TRUE, FALSE)

SessNext ==
    \/ \E g \in Calls : PromptStart(g) /\ UNCHANGED <<aggVars, pipeVars>>
    \/ \E g \in Calls : RunYield(g) /\ UNCHANGED <<aggVars, pipeVars>>
    \/ \E g \in Calls : RunEnd(g) /\ UNCHANGED <<aggVars, pipeVars>>
    \/ \E g \in Calls : RunFail(g) /\ UNCHANGED <<aggVars, pipeVars>>
    \/ \E g \in Calls : RunCancelled(g) /\ UNCHANGED <<aggVars, pipeVars>>
    \/ Cancel /\ UNCHANGED <<aggVars, pipeVars>>
    \/ Close /\ UNCHANGED <<aggVars, pipeVars>>
    \/ CloseReturn /\ UNCHANGED <<aggVars, pipeVars>>

SessSpec == SessInit /\ [][SessNext]_vars

\* the run-loop observes a set Event: once a call's Event is set, the call's
\* consumer keeps pulling and the run-loop raises RunCancelled
SessFairSpec == SessSpec /\ \A g \in Calls : WF_vars(RunCancelled(g) /\ UNCHANGED <<aggVars, pipeVars>>)

(***************************************************************************)
(* prompt(): the high-level pipeline.  It creates a Session, pulls the     *)
(* events of session.prompt, passes each ApprovalRequest to the handler    *)
(* and every other event to the aggregator, and yields the messages.       *)
(***************************************************************************)
ApprovalRequest == Ev("ApprovalRequest", None, <<>>, "call-1", None)

PipeEvents == {ApprovalRequest, TextPart(<<"a">>), ToolCall("call-1", <<>>),
               ToolResult("call-1", "ok"), StepBegin}

Decisions == {"approve", "approve_for_session", "reject"}
Terminal == {"approved", "approved_for_session", "rejected"}

\* ApprovalRequest.resolve(kind): an unresolved request takes the terminal
\* state the decision names
resolve(state, kind) ==
    IF state # "unresolved" THEN state
    ELSE CASE kind = "approve" -> "approved"
           [] kind = "approve_for_session" -> "approved_for_session"
           [] kind = "reject" -> "rejected"
           [] OTHER -> state

\* ApprovalRequest.resolved
resolved(state) == state # "unresolved"

\* variant: a gate that leaves an unresolved request unresolved
gate_NoForce(state) == state

\* the gate, after the handler has returned
gate(state) == IF ~resolved(state) THEN resolve(state, "reject") ELSE state

\* variant: only the first of the two checks
config_error_OnlyBoth(y, h) == IF y /\ h THEN "both" ELSE "ok"

\* the two checks at the head of prompt()
config_error(y, h) ==
    IF y /\ h THEN "both"
    ELSE IF ~y /\ ~h THEN "neither"
    ELSE "ok"

\* variant: only a normal end of the block reaches Session.__aexit__
PipeExit_OnlyOnSuccess(result) ==
    /\ ppc' = IF result = "completed" THEN "closing" ELSE "ended"
    /\ exit_result' = result

\* an outcome leaves the async-with block: Session.__aexit__ is next
PipeExit(result) ==
    /\ ppc' = "closing"
    /\ exit_result' = result

\* the first pull of prompt(): the configuration checks, Session.create,
\* and the first pull of session.prompt
P_Start ==
    /\ ppc = "new"
    /\ IF config_error(yolo, handler_given) # "ok"
       THEN /\ ppc' = "ended"
            /\ presult' = "ValueError"
            /\ UNCHANGED <<session_created, sessVars>>
       ELSE /\ session_created' = TRUE
            /\ PromptStart("p1")
            /\ ppc' = "pull"
            /\ UNCHANGED presult
    /\ UNCHANGED <<yolo, handler_given, pending, exit_result, reqs, aggVars,
                   pulled, fed, emitted, given>>

\* variant: no event is taken for an ApprovalRequest
is_approval_request_Never(wire_msg) == FALSE

\* isinstance(wire_msg, ApprovalRequest)
is_approval_request(wire_msg) == wire_msg.type = "ApprovalRequest"

\* the handler has returned for the last request: the gate, then the next pull
AfterHandler(rs) ==
    LET n == Len(rs)
    IN reqs' = [rs EXCEPT ![n] = [at_return |-> rs[n].state,
                                   state |-> gate(rs[n].state)]]

\* session.prompt yields an ApprovalRequest: the handler is called with it;
\* the handler may resolve the request, and returns, suspends or raises
P_Approval ==
    /\ ppc = "pull"
    /\ yielded["p1"] < MaxPipeEvents
    /\ run_yield("p1")
    /\ \E wire_msg \in PipeEvents :
          /\ is_approval_request(wire_msg)
          /\ pulled' = Append(pulled, wire_msg)
    /\ \E d \in (IF yolo THEN {"approve"} ELSE Decisions \cup {"nothing"}),
          mode \in (IF yolo THEN {"return"} ELSE {"return", "suspend", "raise"}) :
          LET rs == Append(reqs, [at_return |-> "pending",
                                  state |-> resolve("unresolved", d)])
          IN CASE mode = "return" ->
                    /\ AfterHandler(rs)
                    /\ UNCHANGED <<ppc, exit_result>>
               [] mode = "suspend" ->
                    /\ reqs' = rs
                    /\ ppc' = "handler"
                    /\ UNCHANGED exit_result
               [] mode = "raise" ->
                    /\ reqs' = [rs EXCEPT ![Len(rs)].at_return = "raised"]
                    /\ PipeExit("handler_error")
    /\ UNCHANGED <<yolo, handler_given, presult, session_created, pending, aggVars,
                   fed, emitted, given>>

\* a suspended handler resumes: it may resolve the request if it has not
\* yet, and returns or raises
P_HandlerResume ==
    /\ ppc = "handler"
    /\ \E d \in Decisions \cup {"nothing"}, mode \in {"return", "raise"} :
          LET n == Len(reqs)
              rs == [reqs EXCEPT ![n].state = resolve(@, d)]
          IN IF mode = "return"
             THEN /\ AfterHandler(rs)
                  /\ ppc' = "pull"
                  /\ UNCHANGED exit_result
             ELSE /\ reqs' = [rs EXCEPT ![n].at_return = "raised"]
                  /\ PipeExit("handler_error")
    /\ UNCHANGED <<yolo, handler_given, presult, session_created, pending, aggVars,
                   sessVars, pulled, fed, emitted, given>>

\* variant: the next event pulled without the messages of feed() being
\* yielded first
P_Event_NoWait ==
    /\ ppc = "pull"
    /\ yielded["p1"] < MaxPipeEvents
    /\ run_yield("p1")
    /\ \E wire_msg \in PipeEvents :
          /\ ~is_approval_request(wire_msg)
          /\ pulled' = Append(pulled, wire_msg)
          /\ DoFeed(wire_msg)
          /\ fed' = Append(fed, wire_msg)
          /\ emitted' = emitted \o out'
          /\ pending' = out'
          /\ ppc' = "pull"
    /\ UNCHANGED <<yolo, handler_given, presult, session_created, exit_result, reqs,
                   given>>

\* session.prompt yields any other event: it is fed to the aggregator, and
\* the messages feed returns are yielded one by one
P_Event ==
    /\ ppc = "pull"
    /\ yielded["p1"] < MaxPipeEvents
    /\ run_yield("p1")
    /\ \E wire_msg \in PipeEvents :
          /\ ~is_approval_request(wire_msg)
          /\ pulled' = Append(pulled, wire_msg)
          /\ DoFeed(wire_msg)
          /\ fed' = Append(fed, wire_msg)
          /\ emitted' = emitted \o out'
          /\ pending' = out'
          /\ ppc' = IF out' = <<>> THEN "pull" ELSE "yield"
    /\ UNCHANGED <<yolo, handler_given, presult, session_created, exit_result, reqs,
                   given>>

\* the consumer takes the next message of the last feed()
P_Yield ==
    /\ ppc = "yield"
    /\ given' = Append(given, Head(pending))
    /\ pending' = Tail(pending)
    /\ ppc' = IF pending' = <<>> THEN "pull" ELSE "yield"
    /\ UNCHANGED <<yolo, handler_given, presult, session_created, exit_result, reqs,
                   aggVars, sessVars, pulled, fed, emitted>>

\* the stream of session.prompt ends: the terminal flush()
P_End ==
    /\ ppc = "pull"
    /\ RunEnd("p1")
    /\ DoFlush
    /\ emitted' = emitted \o out'
    /\ pending' = out'
    /\ IF out' = <<>> THEN PipeExit("completed")
       ELSE ppc' = "flush_yield" /\ UNCHANGED exit_result
    /\ UNCHANGED <<yolo, handler_given, presult, session_created, reqs,
                   pulled, fed, given>>

\* the consumer takes the next message of the terminal flush()
P_FlushYield ==
    /\ ppc = "flush_yield"
    /\ given' = Append(given, Head(pending))
    /\ pending' = Tail(pending)
    /\ IF pending' = <<>> THEN PipeExit("completed")
       ELSE UNCHANGED <<ppc, exit_result>>
    /\ UNCHANGED <<yolo, handler_given, presult, session_created, reqs, aggVars,
                   sessVars, pulled, fed, emitted>>

\* variant: the terminal flush() made on an upstream error too
P_Fail_Flushes ==
    /\ ppc = "pull"
    /\ RunFail("p1")
    /\ DoFlush
    /\ emitted' = emitted \o out'
    /\ given' = given \o out'
    /\ PipeExit("error")
    /\ UNCHANGED <<yolo, handler_given, presult, session_created, pending, reqs,
                   pulled, fed>>

\* session.prompt raises an upstream error: it leaves the async-with block
P_Fail ==
    /\ ppc = "pull"
    /\ RunFail("p1")
    /\ PipeExit("error")
    /\ UNCHANGED <<yolo, handler_given, presult, session_created, pending, reqs, aggVars,
                   pulled, fed, emitted, given>>

\* Session.__aexit__: close(), up to its await
P_AExit ==
    /\ ppc = "closing"
    /\ Close
    /\ ppc' = IF close_pending' THEN "closing_await" ELSE "ended"
    /\ presult' = IF close_pending' THEN presult ELSE exit_result
    /\ UNCHANGED <<yolo, handler_given, session_created, pending, exit_result, reqs,
                   aggVars, pulled, fed, emitted, given>>

\* close() returns and the outcome reaches the consumer of prompt()
P_AExitReturn ==
    /\ ppc = "closing_await"
    /\ CloseReturn
    /\ ppc' = "ended"
    /\ presult' = exit_result
    /\ UNCHANGED <<yolo, handler_given, session_created, pending, exit_result, reqs,
                   aggVars, pulled, fed, emitted, given>>

PromptInit ==
    /\ \E fmo \in BOOLEAN : AggFields(fmo)
    /\ SessFields /\ toolset_cleanup \in CleanupKinds
    /\ \E y \in BOOLEAN, h \in BOOLEAN : PipeFields(y, h)

PromptNext ==
    \/ P_Start
    \/ P_Approval
    \/ P_HandlerResume
    \/ P_Event
    \/ P_Yield
    \/ P_End
    \/ P_FlushYield
    \/ P_Fail
    \/ P_AExit
    \/ P_AExitReturn

PromptSpec == PromptInit /\ [][PromptNext]_vars

(***************************************************************************)
(* The aggregator fed one whole stream, as prompt() feeds it: events and   *)
(* boundaries in any order, then the terminal flush(); fed and emitted     *)
(* keep the whole stream and everything returned.                          *)
(***************************************************************************)
StreamEvents ==
    ContentEvents \cup {ToolCall("call-1", <<>>), ToolResult("call-1", "ok")}
    \cup Boundaries

StreamInit ==
    /\ \E fmo \in BOOLEAN : AggFields(fmo)
    /\ SessFields /\ toolset_cleanup = "none"
    /\ PipeFields(TRUE, FALSE)

\* for message in aggregator.feed(wire_msg)
S_Feed ==
    /\ lastOp # "flush"
    /\ Len(fed) < MaxStreamEvents
    /\ \E wire_msg \in StreamEvents :
          /\ DoFeed(wire_msg)
          /\ fed' = Append(fed, wire_msg)
          /\ emitted' = emitted \o out'
    /\ UNCHANGED <<sessVars, yolo, handler_given, ppc, presult, session_created,
                   pending, exit_result, reqs, pulled, given>>

\* for message in aggregator.flush(), once the stream has ended
S_Flush ==
    /\ lastOp # "flush"
    /\ DoFlush
    /\ emitted' = emitted \o out'
    /\ UNCHANGED <<sessVars, yolo, handler_given, ppc, presult, session_created,
                   pending, exit_result, reqs, pulled, fed, given>>

StreamNext == S_Feed \/ S_Flush

StreamSpec == StreamInit /\ [][StreamNext]_vars

(***************************************************************************)
(* Claims about prompt() (checked under PromptSpec).                       *)
(***************************************************************************)
\* C6: once the approval handler has returned for an ApprovalRequest, the
\* request is in a terminal state: the state the handler resolved it to,
\* which the gate leaves alone, or rejected when the handler left it
\* unresolved.
C6_GateLeavesRequestResolved ==
    \A i \in 1..Len(reqs) :
        reqs[i].at_return \notin {"pending", "raised"} =>
            /\ reqs[i].state \in Terminal
            /\ reqs[i].at_return \in Terminal => reqs[i].state = reqs[i].at_return
            /\ reqs[i].at_return = "unresolved" => reqs[i].state = "rejected"

\* C6 witness: a custom handler returned leaving the first request
\* unresolved and resolved the second to approved_for_session after
\* suspending; the first is rejected, the second keeps its state.
C6_Witness ==
    /\ ~yolo /\ Len(reqs) = 2 /\ ppc = "pull"
    /\ reqs[1] = [at_return |-> "unresolved", state |-> "rejected"]
    /\ reqs[2] = [at_return |-> "approved_for_session", state |-> "approved_for_session"]

\* C7: prompt() called with both yolo=True and an approval handler, or with
\* neither, ends with a ValueError, with no session created, session.prompt
\* never pulled, no event yielded by the run-loop and nothing fed to the
\* aggregator or passed to the handler.
C7_ConfigErrorBeforeAnything ==
    (ppc # "new" /\ yolo = handler_given) =>
        /\ ppc = "ended" /\ presult = "ValueError"
        /\ ~session_created /\ ~_closed /\ _cancel_event = None
        /\ \A g \in Calls : pc[g] = "new" /\ ~run_called[g] /\ yielded[g] = 0
        /\ lastOp = "init" /\ reqs = <<>> /\ pending = <<>>

\* C7 witness: the call with both yolo and a handler has failed.
C7_Witness ==
    /\ yolo /\ handler_given
    /\ ppc = "ended" /\ presult = "ValueError"

\* C14: when the run-loop raises an error, prompt() ends with that error:
\* flush() is not called, no message is pending, the consumer has been given
\* exactly the messages feed() returned for the events received before the
\* error, nothing is fed or given afterwards, and the error is the outcome
\* that reaches the consumer.
C14_UpstreamErrorEndsSequence ==
    /\ [](exit_result = "error" =>
              /\ outcome["p1"] = "error"
              /\ lastOp # "flush"
              /\ pending = <<>>
              /\ given = emitted
              /\ ppc \in {"closing", "closing_await", "ended"}
              /\ presult = IF ppc = "ended" THEN "error" ELSE "none")
    /\ [][exit_result = "error" =>
              given' = given /\ fed' = fed /\ emitted' = emitted]_vars

\* C14 witness: the run-loop failed after a step's message had been given
\* to the consumer and with content of the next step in the buffer; the
\* error has reached the consumer and the buffer is still unflushed.
C14_Witness ==
    /\ ppc = "ended" /\ presult = "error"
    /\ Len(given) = 1 /\ given = emitted
    /\ Len(fed) = 3 /\ _content_buffer # <<>>

\* C15: the events passed to feed() are the events session.prompt yielded
\* with the ApprovalRequests left out, in the same order; no ApprovalRequest
\* is among them, and each one went to the gate instead.
C15_ApprovalNeverFed ==
    /\ fed = SelectSeq(pulled, LAMBDA e : e.type # "ApprovalRequest")
    /\ \A i \in 1..Len(fed) : fed[i].type # "ApprovalRequest"
    /\ Len(reqs) = Len(SelectSeq(pulled, LAMBDA e : e.type = "ApprovalRequest"))

\* C15 witness: an ApprovalRequest arrived between two other events, and
\* only those two were fed.
C15_Witness ==
    /\ pulled = <<TextPart(<<"a">>), ApprovalRequest, StepBegin>>
    /\ fed = <<TextPart(<<"a">>), StepBegin>>
    /\ Len(reqs) = 1

\* C17 as stated: whenever prompt() is not inside a handler call, that is
\* before each pull and once it is terminating or has terminated, every
\* ApprovalRequest that reached the gate is in a terminal state, whether its
\* handler returned, suspended and returned, or raised.
C17_NoRequestEscapesUnresolved ==
    ppc # "handler" => \A i \in 1..Len(reqs) : reqs[i].state \in Terminal

\* C17 witness: the handler raised without resolving the request; prompt()
\* has ended with the handler's error, the session is closed, and the
\* request is still unresolved, the session.prompt call left suspended.
C17_Witness ==
    /\ ppc = "ended" /\ presult = "handler_error" /\ _closed
    /\ reqs = <<[at_return |-> "raised", state |-> "unresolved"]>>
    /\ pc["p1"] = "running"

\* C23: whenever prompt() pulls an event from session.prompt, every event
\* pulled before it is done with: each earlier ApprovalRequest has had its
\* handler return and is in a terminal state, each other earlier event has
\* been fed, and every message feed() returned has been taken by the
\* consumer; and the run-loop has produced no event beyond those pulled.
C23_PullOnlyAfterProcessed ==
    /\ [][Len(pulled') = Len(pulled) + 1 =>
             /\ pending = <<>> /\ given = emitted
             /\ Len(fed) + Len(reqs) = Len(pulled)
             /\ \A i \in 1..Len(reqs) :
                   /\ reqs[i].at_return \notin {"pending", "raised"}
                   /\ reqs[i].state \in Terminal]_vars
    /\ [](yielded["p1"] = Len(pulled))
    /\ [](ppc \in {"handler", "yield"} => Len(pulled) > 0)

\* C23 witness: an ApprovalRequest the handler left unresolved, then a text
\* part, then a boundary were pulled one after the other; the boundary's
\* message is waiting for the consumer and nothing further has been pulled.
C23_Witness ==
    /\ pulled = <<ApprovalRequest, TextPart(<<"a">>), StepBegin>>
    /\ reqs = <<[at_return |-> "unresolved", state |-> "rejected"]>>
    /\ ppc = "yield" /\ Len(pending) = 1 /\ given = <<>>
    /\ yielded["p1"] = 3

\* C25: a prompt() that created its session and has ended, by the end of
\* the stream, by a run-loop error or by an error of the approval handler,
\* has closed the session, and its consumer has the outcome that left the
\* block; close() is called once the block is left and not before, and is
\* never called on a session already closed, so the toolset's cleanup, when
\* it has one, is called exactly once.
C25_SessionClosedOnEveryExit ==
    /\ (ppc = "ended" /\ session_created) =>
          /\ _closed /\ ~close_pending
          /\ presult = exit_result
          /\ presult \in {"completed", "error", "handler_error"}
    /\ exit_result # "none" => ppc \in {"closing", "closing_await", "ended"}
    /\ _closed <=> (session_created /\ ppc \in {"closing_await", "ended"})
    /\ sessOp # "close_noop"
    /\ cleanup_calls = IF _closed /\ toolset_cleanup # "none" THEN 1 ELSE 0

\* C25 witness: the run-loop failed after a message had been given to the
\* consumer; the session's awaitable cleanup was called once and awaited,
\* and the error has reached the consumer with the session closed.
C25_Witness ==
    /\ session_created /\ ppc = "ended" /\ presult = "error"
    /\ Len(given) = 1
    /\ toolset_cleanup = "async" /\ sessOp = "close_return"
    /\ _closed /\ cleanup_calls = 1

(***************************************************************************)
(* Claims about the Session (checked under SessSpec and SessFairSpec).     *)
(***************************************************************************)
\* the fields of the Session and of its prompt calls, without the history
sessState == <<_closed, _cancel_event, is_set, pc, outcome, run_called, yielded,
               cleanup_calls, close_pending>>

\* C8: at most one prompt call of a Session is in flight at any time; a
\* prompt started while another is in flight fails with a RuntimeError
\* without calling the run-loop and without disturbing the call in flight;
\* a prompt started on an open session with no call in flight (the previous
\* ones having ended by completion, failure or cancellation) is accepted.
C8_SingleFlight ==
    /\ [](Cardinality(InFlight) <= 1)
    /\ [][\A g \in Calls :
            (pc[g] = "new" /\ pc'[g] # "new") =>
                IF InFlight # {}
                THEN /\ pc'[g] = "ended"
                     /\ outcome'[g] \in {"RuntimeError_running", "RuntimeError_closed"}
                     /\ ~run_called'[g]
                     /\ InFlight' = InFlight
                ELSE ~_closed => (pc'[g] = "running" /\ run_called'[g])]_vars

\* C8 witness: p1 has completed, p2 was rejected as a second concurrent
\* call, and p3, started after p1 ended, is in flight.
C8_Witness ==
    /\ outcome["p1"] = "completed"
    /\ outcome["p2"] = "RuntimeError_running" /\ ~run_called["p2"]
    /\ pc["p3"] = "running"

\* C9: cancel() called while a prompt is in flight sets that prompt's Event,
\* and a prompt in flight that cancel() has signalled eventually ends with
\* RunCancelled reaching its consumer.
C9_CancelTerminatesPrompt ==
    /\ [](sessOp = "cancel" => \A g \in Calls : _cancel_event = g => is_set[g])
    /\ \A g \in Calls :
          (pc[g] = "running" /\ signalled[g] = "cancel") ~> (outcome[g] = "RunCancelled")

\* C9 witness: a call that cancel() signalled in flight has ended with
\* RunCancelled.
C9_Witness ==
    \E g \in Calls :
        /\ signalled[g] = "cancel" /\ yielded[g] > 0
        /\ pc[g] = "ended" /\ outcome[g] = "RunCancelled"

\* C10: cancel() with no prompt in flight changes no field of the session; a
\* prompt that is accepted starts with its Event unset; and an Event is set,
\* and a prompt ends with RunCancelled, only if cancel() or close() was
\* called while that prompt was in flight.
C10_IdleCancelIsNoop ==
    /\ [][(sessOp' = "cancel" /\ _cancel_event = None) => UNCHANGED sessState]_vars
    /\ [](sessOp = "prompt_accepted" =>
              \A g \in Calls : _cancel_event = g => ~is_set[g])
    /\ [](\A g \in Calls : is_set[g] => signalled[g] # "no")
    /\ [](\A g \in Calls : outcome[g] = "RunCancelled" => signalled[g] # "no")

\* C10 witness: cancel() was called with nothing in flight, before p1
\* started or after it ended, p1 has completed uncancelled, and p2 is in
\* flight with its Event unset.
C10_Witness ==
    /\ idleCancel
    /\ outcome["p1"] = "completed" /\ ~is_set["p1"]
    /\ pc["p2"] = "running" /\ ~is_set["p2"]

\* C11: whatever number of close() calls a session receives, the toolset's
\* cleanup is called at most once, and a close() on a session already closed,
\* the first call still awaiting the cleanup or not, changes no field of the
\* session, so the state is the one a single close() leaves.
C11_CloseIdempotent ==
    /\ [](cleanup_calls <= 1)
    /\ [](_closed \/ cleanup_calls = 0)
    /\ [][(_closed /\ sessOp' \in {"close", "close_noop"}) => UNCHANGED sessState]_vars

\* C11 witness: a second close() has returned while the first is still
\* awaiting the cleanup, which was called once.
C11_Witness ==
    /\ sessOp = "close_noop" /\ close_pending
    /\ _closed /\ cleanup_calls = 1

\* C12: a closed session is closed in every later state, and a prompt
\* started on a closed session ends at once with a RuntimeError, without
\* calling the run-loop and with the session's Event reference and every
\* Event left as they were.
C12_ClosedIsMonotonic ==
    /\ [][_closed => _closed']_vars
    /\ [][\A g \in Calls :
            (_closed /\ pc[g] = "new" /\ pc'[g] # "new") =>
                /\ pc'[g] = "ended"
                /\ outcome'[g] = "RuntimeError_closed"
                /\ ~run_called'[g]
                /\ _cancel_event' = _cancel_event /\ _cancel_event' # g
                /\ is_set' = is_set]_vars

\* C12 witness: close() was called while p1 was in flight; p2, started
\* after it, was rejected as closed without calling the run-loop, and p3,
\* started once p1 had ended, was rejected too, leaving no Event.
C12_Witness ==
    /\ _closed /\ signalled["p1"] = "close" /\ outcome["p1"] = "RunCancelled"
    /\ outcome["p2"] = "RuntimeError_closed" /\ ~run_called["p2"]
    /\ sessOp = "prompt_rejected"
    /\ outcome["p3"] = "RuntimeError_closed" /\ _cancel_event = None

\* C16: the session refers to an Event exactly when a prompt call is in
\* flight, and the Event is that call's own: the reference is made when the
\* call is accepted and is gone once the call has ended, by completion, by
\* an upstream error or by cancellation.
C16_FlagIffInFlight ==
    /\ (_cancel_event # None) <=> (InFlight # {})
    /\ \A g \in Calls : (_cancel_event = g) <=> (pc[g] = "running")
    /\ sessOp \in {"end", "fail", "cancelled"} => _cancel_event = None

\* C16 witness: three calls have run one after the other and ended by
\* completion, by an upstream error and by cancellation; no Event is left.
C16_Witness ==
    /\ outcome["p1"] = "completed" /\ outcome["p2"] = "error"
    /\ outcome["p3"] = "RunCancelled" /\ sessOp = "cancelled"
    /\ _cancel_event = None

\* C24: the first close() of a session with a prompt in flight marks the
\* session closed, sets the Event of that prompt and leaves it in place,
\* and calls the toolset's cleanup, when it has one, once, awaiting it when
\* it is awaitable; and under a run-loop that observes its Event, a prompt
\* in flight on a closed session eventually ends with RunCancelled, the
\* session closed and referring to no Event.
C24_CloseCancelsPromptInFlight ==
    /\ [][(~_closed /\ sessOp' = "close" /\ InFlight # {}) =>
             /\ _closed'
             /\ \A g \in InFlight : is_set'[g] /\ _cancel_event' = g /\ pc'[g] = "running"
             /\ cleanup_calls' = IF toolset_cleanup = "none" THEN 0 ELSE 1
             /\ close_pending' = (toolset_cleanup = "async")]_vars
    /\ \A g \in Calls :
          (_closed /\ pc[g] = "running") ~>
              (outcome[g] = "RunCancelled" /\ _closed /\ _cancel_event = None)
    /\ []((_closed /\ InFlight = {}) => [](_closed /\ _cancel_event = None))

\* C24 witness: close() was called while p1 was in flight, on a session
\* whose toolset has an awaitable cleanup; the cleanup was called once and
\* has completed, p1 has ended with RunCancelled after yielding events, and
\* the session is closed and refers to no Event.
C24_Witness ==
    /\ toolset_cleanup = "async" /\ cleanup_calls = 1 /\ ~close_pending
    /\ signalled["p1"] = "close" /\ yielded["p1"] > 0
    /\ outcome["p1"] = "RunCancelled"
    /\ _closed /\ _cancel_event = None

\* C26: a prompt rejected because another is in flight changes nothing but
\* its own end: the session's fields, its Event reference, every Event and
\* every other call are as before, and the call in flight is still in
\* flight and still the one the session refers to; so a cancel() made after
\* the rejection still sets the Event of the call in flight, and a further
\* prompt is rejected as long as that call has not ended.
C26_RejectedPromptChangesNothing ==
    /\ [][\A g \in Calls :
            (pc[g] = "new" /\ outcome'[g] = "RuntimeError_running") =>
                /\ UNCHANGED <<_closed, _cancel_event, is_set, run_called, yielded,
                               cleanup_calls, close_pending, signalled>>
                /\ \A h \in Calls \ {g} : pc'[h] = pc[h] /\ outcome'[h] = outcome[h]
                /\ _cancel_event \in InFlight /\ InFlight' = InFlight]_vars
    /\ []((sessOp = "cancel" /\ \E h \in Calls : outcome[h] = "RuntimeError_running") =>
              \A g \in InFlight : _cancel_event = g /\ is_set[g])
    /\ [][\A g \in Calls :
            (InFlight # {} /\ pc[g] = "new" /\ pc'[g] # "new") =>
                pc'[g] = "ended" /\ ~run_called'[g]]_vars

\* C26 witness: p2 was rejected while p1 was in flight; p1 was then
\* cancelled by cancel() and ended with RunCancelled, and p3, started after
\* that, is in flight with an Event of its own, unset.
C26_Witness ==
    /\ outcome["p2"] = "RuntimeError_running" /\ ~run_called["p2"]
    /\ signalled["p1"] = "cancel" /\ outcome["p1"] = "RunCancelled"
    /\ pc["p3"] = "running" /\ _cancel_event = "p3" /\ ~is_set["p3"]

(***************************************************************************)
(* What a step's events say, read off the history alone.                   *)
(***************************************************************************)
Range(s) == {s[i] : i \in 1..Len(s)}
MaxOf(S) == CHOOSE x \in S : \A y \in S : y <= x

RECURSIVE Dedup(_)
\* a sequence with only the first occurrence of each element kept
Dedup(s) ==
    IF s = <<>> THEN <<>>
    ELSE LET r == Dedup(SubSeq(s, 1, Len(s) - 1))
             x == s[Len(s)]
         IN IF x \in Range(r) THEN r ELSE Append(r, x)

\* the ids of the calls started in h, in the order of their (first) start
StartOrder(h) ==
    LET starts == SelectSeq(h, LAMBDA e : e.type = "ToolCall")
    IN Dedup([i \in 1..Len(starts) |-> starts[i].id])

\* the result the call id holds at the end of h: the last result that
\* arrived after the call was (last) started, None when there is none
ResultAt(h, id) ==
    LET starts == {i \in 1..Len(h) : h[i].type = "ToolCall" /\ h[i].id = id}
        rs == {i \in 1..Len(h) : /\ h[i].type = "ToolResult" /\ h[i].id = id
                                  /\ starts # {} /\ i > MaxOf(starts)}
    IN IF rs = {} THEN None ELSE h[MaxOf(rs)].payload

\* the calls of h that hold a result, in start order
ResultOrder(h) == SelectSeq(StartOrder(h), LAMBDA id : ResultAt(h, id) # None)

\* the calls of h that hold no result
Unanswered(h) == {id \in Range(StartOrder(h)) : ResultAt(h, id) = None}

\* the content fragments of h, in arrival order
Fragments(h) == SelectSeq(h, LAMBDA e : e.type = "ContentPart")

RECURSIVE CharsOf(_)
\* the characters of a sequence of parts or fragments, each with its kind
CharsOf(parts) ==
    IF parts = <<>> THEN <<>>
    ELSE [i \in 1..Len(Head(parts).text) |-> <<Head(parts).kind, Head(parts).text[i]>>]
         \o CharsOf(Tail(parts))

RECURSIVE TextOf(_)
\* the text fragments of h, concatenated
TextOf(h) ==
    IF h = <<>> THEN <<>>
    ELSE (IF Head(h).type = "ContentPart" /\ Head(h).kind = "text"
          THEN Head(h).text ELSE <<>>) \o TextOf(Tail(h))

RECURSIVE Runs(_)
\* the fragments grouped into maximal runs of one kind, each run one part
\* holding the concatenation of its fragments
Runs(fs) ==
    IF fs = <<>> THEN <<>>
    ELSE LET k == Head(fs).kind
             n == MaxOf({j \in 1..Len(fs) : \A i \in 1..j : fs[i].kind = k})
             run == SubSeq(fs, 1, n)
             RECURSIVE Cat(_)
             Cat(r) == IF r = <<>> THEN <<>> ELSE Head(r).text \o Cat(Tail(r))
         IN <<[kind |-> k, text |-> Cat(run)]>> \o Runs(SubSeq(fs, n + 1, Len(fs)))

RECURSIVE LStrip(_)
\* a text without its leading whitespace
LStrip(t) == IF t # <<>> /\ Head(t) = " " THEN LStrip(Tail(t)) ELSE t

\* a text trimmed of whitespace at both ends
Trim(t) == Reverse(LStrip(Reverse(LStrip(t))))

\* the id of the call started last in h (h holds a start)
LastStarted(h) ==
    LET starts == SelectSeq(h, LAMBDA e : e.type = "ToolCall")
    IN starts[Len(starts)].id

\* the tracker after chunk is appended to the arguments of the call target
\* and nothing else is touched
WithDelta(buf, target, chunk) ==
    [i \in 1..Len(buf) |->
        IF buf[i].id = target THEN [buf[i] EXCEPT !.arguments = @ \o chunk]
        ELSE buf[i]]

RECURSIVE SplitSteps(_)
\* the events of h step by step: h cut at its boundaries
SplitSteps(h) ==
    IF \A i \in 1..Len(h) : ~IsBoundary(h[i]) THEN <<h>>
    ELSE LET b == CHOOSE i \in 1..Len(h) :
                     IsBoundary(h[i]) /\ \A j \in 1..(i - 1) : ~IsBoundary(h[j])
         IN <<SubSeq(h, 1, b - 1)>> \o SplitSteps(SubSeq(h, b + 1, Len(h)))

RECURSIVE Flatten(_)
Flatten(ss) == IF ss = <<>> THEN <<>> ELSE Head(ss) \o Flatten(Tail(ss))

\* the assistant messages among msgs, in order
Assistant(msgs) == SelectSeq(msgs, LAMBDA m : m.role = "assistant")

PendingNonEmpty(h) == \E i \in 1..Len(h) : h[i].type \in {"ContentPart", "ToolCall"}

IdsOf(calls) == [i \in 1..Len(calls) |-> calls[i].id]

(***************************************************************************)
(* Claims about the aggregator (checked under AggSpec).                    *)
(***************************************************************************)

\* C1: under the full policy, a step boundary fed while the pending buffer is
\* non-empty returns exactly one assistant message carrying the accumulated
\* content, followed by one tool-role message for each tracked call that has
\* a result, in the order in which the calls were started (ids started more
\* than once count from their first start), whatever order the results
\* arrived in.
C1_BoundaryFlushInStartOrder ==
    (~_final_message_only /\ lastOp = "boundary" /\ PendingNonEmpty(flushed)) =>
        LET ids == ResultOrder(flushed) IN
        /\ Len(out) = 1 + Len(ids)
        /\ out[1].role = "assistant"
        /\ CharsOf(out[1].content) = CharsOf(Fragments(flushed))
        /\ \A i \in 1..Len(ids) :
              /\ out[i + 1].role = "tool"
              /\ out[i + 1].tool_call_id = ids[i]
              /\ extract_text(out[i + 1].content) = <<ResultAt(flushed, ids[i])>>

\* C1 witness: two calls started, their results arriving in the opposite
\* order, text fed, and the boundary's tool messages in start order.
C1_Witness ==
    /\ ~_final_message_only /\ lastOp = "boundary"
    /\ flushed = <<ToolCall("call-1", <<>>), ToolCall("call-2", <<>>),
                   ToolResult("call-2", "ok"), ToolResult("call-1", "err")>>
    /\ Len(out) = 3
    /\ out[2].tool_call_id = "call-1" /\ out[3].tool_call_id = "call-2"

\* C2 as stated: under the full policy, a call started with no result by the
\* time of a flush is in the tool-call list of the flush's assistant message,
\* and no tool-role message is emitted for it.
C2_Original ==
    (~_final_message_only /\ lastOp \in {"boundary", "flush"} /\ PendingNonEmpty(flushed)) =>
        \A id \in Unanswered(flushed) :
            /\ Len(out) >= 1
            /\ id \in Range(IdsOf(out[1].tool_calls))
            /\ \A i \in 1..Len(out) : out[i].role = "tool" => out[i].tool_call_id # id

\* C2 amended: under the full policy, a call started with no result by the
\* time of a flush is left out of the tool-call list of the flush's assistant
\* message, which lists exactly the calls that have a result, and no
\* tool-role message is emitted for it.
C2_UnansweredCallOmitted ==
    (~_final_message_only /\ lastOp \in {"boundary", "flush"} /\ PendingNonEmpty(flushed)) =>
        /\ Len(out) >= 1
        /\ out[1].role = "assistant"
        /\ IdsOf(out[1].tool_calls) = ResultOrder(flushed)
        /\ \A id \in Unanswered(flushed) :
              /\ id \notin Range(IdsOf(out[1].tool_calls))
              /\ \A i \in 1..Len(out) : out[i].role = "tool" => out[i].tool_call_id # id

\* C2 witness: a flush of a step with one answered and one unanswered call.
C2_Witness ==
    /\ ~_final_message_only /\ lastOp = "boundary"
    /\ Unanswered(flushed) = {"call-2"}
    /\ Len(out) = 2
    /\ IdsOf(out[1].tool_calls) = <<"call-1">>
    /\ out[2].tool_call_id = "call-1"

\* C3: under the final-only policy, feed returns no messages for any event, a
\* step boundary leaves the buffers empty, and flush() emits at most one
\* assistant message, whose text is exactly the text fed since the last
\* boundary (none when that text is empty).
C3_FinalOnlyLastStepText ==
    _final_message_only =>
        /\ lastOp \in {"feed", "boundary"} => out = <<>>
        /\ lastOp = "boundary" =>
              _content_buffer = <<>> /\ _tool_call_buffer = <<>> /\ _last_tool_call = None
        /\ lastOp = "flush" =>
              /\ Len(out) <= 1
              /\ out # <<>> =>
                    /\ out[1].role = "assistant"
                    /\ out[1].tool_calls = <<>>
                    /\ out[1].content = <<[kind |-> "text", text |-> TextOf(flushed)]>>
              /\ TextOf(flushed) # <<>> => Len(out) = 1

\* C3 witness: a flush that emits the text of the fragments fed in the step.
C3_Witness ==
    /\ _final_message_only /\ lastOp = "flush"
    /\ flushed = <<TextPart(<<"a">>), ThinkPart(<<"t">>), TextPart(<<" ">>)>>
    /\ Len(out) = 1
    /\ extract_text(out[1].content) = <<"a", " ">>

\* C4: under the final-only policy, an aggregator fed a sequence of events
\* and one fed the same sequence without its tool-call start, argument-delta
\* and tool-result events return the same messages from every feed and from
\* flush (the left-out events return none), and the tool-call buffer and the
\* last-started pointer stay empty throughout.
C4_FinalOnlyIgnoresToolEvents ==
    _final_message_only =>
        /\ out = shadowOut
        /\ _content_buffer = shadow._content_buffer
        /\ _tool_call_buffer = <<>>
        /\ _last_tool_call = None

\* C4 witness: a flush that emits a message for a step in which a call was
\* started, extended and answered between the text fragments.
C4_Witness ==
    /\ _final_message_only /\ lastOp = "flush" /\ out # <<>>
    /\ \E i \in 1..Len(flushed) : flushed[i].type = "ToolCall"
    /\ \E i \in 1..Len(flushed) : flushed[i].type = "ToolResult"
    /\ \E i \in 1..Len(flushed) : flushed[i].type = "ToolCallPart"

\* C5: within a step, the content buffer holds one part for each maximal run
\* of consecutive same-kind fragments, that part holding the run's
\* concatenation: a fragment of the last part's kind does not lengthen the
\* buffer, a fragment of another kind is appended as a new part.
C5_SameKindFragmentsMerge == _content_buffer = Runs(Fragments(hist))

\* C5 witness: two text fragments merged into one part, then a part of
\* another kind, then text again as a third part.
C5_Witness ==
    /\ lastOp = "feed"
    /\ Fragments(hist) = <<TextPart(<<"a">>), TextPart(<<" ">>), ThinkPart(<<"t">>),
                           TextPart(<<"a">>)>>
    /\ Len(_content_buffer) = 3
    /\ _content_buffer[1].text = <<"a", " ">>

\* C13: under the full policy, a step boundary or a flush() that finds no
\* content part and no tracked call returns no messages and leaves the
\* buffers empty: so it is for a boundary or flush() that follows a step in
\* which no content and no tool call start was fed (a fresh aggregator, a
\* boundary, or only dropped events before it).
C13_EmptyBufferEmitsNothing ==
    /\ []((~_final_message_only /\ lastOp \in {"boundary", "flush"}
            /\ ~PendingNonEmpty(flushed)) =>
              /\ out = <<>>
              /\ _content_buffer = <<>> /\ _tool_call_buffer = <<>>)
    /\ [][(~_final_message_only /\ lastOp' \in {"boundary", "flush"}
            /\ _content_buffer = <<>> /\ _tool_call_buffer = <<>>) =>
              /\ out' = <<>>
              /\ _content_buffer' = <<>> /\ _tool_call_buffer' = <<>>]_vars

\* C13 witness: a boundary that closes a step in which only an argument
\* delta and a tool result, both dropped, were fed.
C13_Witness ==
    /\ ~_final_message_only /\ lastOp = "boundary"
    /\ flushed = <<ToolCallPart(None, <<"x">>), ToolResult("call-1", "ok")>>
    /\ out = <<>>

\* C18 as stated: under the final-only policy, flush() returns no message
\* when the text fed since the last boundary is empty once trimmed of
\* whitespace, and exactly one assistant message otherwise.
C18_FinalOnlyTrimmedEmptyEmitsNothing ==
    (_final_message_only /\ lastOp = "flush") =>
        IF Trim(TextOf(flushed)) = <<>> THEN out = <<>>
        ELSE Len(out) = 1 /\ out[1].role = "assistant"

\* C18 witness: only whitespace text was fed since the last boundary, and
\* flush() has returned an assistant message holding it.
C18_Witness ==
    /\ _final_message_only /\ lastOp = "flush"
    /\ flushed = <<TextPart(<<" ">>)>>
    /\ Len(out) = 1 /\ out[1].role = "assistant"
    /\ extract_text(out[1].content) = <<" ">>

\* C19: under the full policy, feeding an argument delta in a step in which
\* no tool call has been started, or a tool result whose id is the id of no
\* call started in the step, returns no messages and leaves the content
\* buffer, the tracked calls with their arguments and results, and the
\* last-started pointer as they were.
C19_StrayDeltaAndResultDropped ==
    [][(~_final_message_only /\ Len(hist') = Len(hist) + 1) =>
          LET e == hist'[Len(hist')] IN
          (\/ e.type = "ToolCallPart" /\ StartOrder(hist) = <<>>
           \/ e.type = "ToolResult" /\ e.id \notin Range(StartOrder(hist))) =>
              /\ out' = <<>>
              /\ UNCHANGED <<_content_buffer, _tool_call_buffer, _last_tool_call>>]_vars

\* C19 witness: a delta fed before any call was started, then call-1
\* started, then a result for call-2: the tracker holds call-1 alone, with
\* no arguments and no result.
C19_Witness ==
    /\ ~_final_message_only /\ lastOp = "feed" /\ out = <<>>
    /\ hist = <<ToolCallPart(None, <<"x">>), ToolCall("call-1", <<>>),
                ToolResult("call-2", "ok")>>
    /\ _tool_call_buffer = <<[id |-> "call-1", arguments |-> <<>>, tool_result |-> None]>>
    /\ _last_tool_call = "call-1"

\* C20 as stated: under the full policy, an argument delta fed while a call
\* is tracked is appended to the arguments of the call it addresses, the
\* call whose id it carries or, when it carries none, the call started
\* last, and every other tracked call is unchanged.
C20_Original ==
    [][(~_final_message_only /\ Len(hist') = Len(hist) + 1) =>
          LET e == hist'[Len(hist')] IN
          (/\ e.type = "ToolCallPart" /\ StartOrder(hist) # <<>>
           /\ e.id \in Range(StartOrder(hist)) \cup {None}) =>
              LET target == IF e.id # None THEN e.id ELSE LastStarted(hist) IN
              /\ \E i \in 1..Len(_tool_call_buffer) : _tool_call_buffer[i].id = target
              /\ _tool_call_buffer' = WithDelta(_tool_call_buffer, target, e.text)]_vars

\* C20 amended: under the full policy, an argument delta fed while a call
\* is tracked is appended to the arguments of the call started last,
\* whatever id the delta carries, and every other tracked call, the content
\* buffer and the last-started pointer are unchanged.
C20_DeltaGoesToLastStarted ==
    [][(~_final_message_only /\ Len(hist') = Len(hist) + 1) =>
          LET e == hist'[Len(hist')] IN
          (e.type = "ToolCallPart" /\ StartOrder(hist) # <<>>) =>
              LET target == LastStarted(hist) IN
              /\ \E i \in 1..Len(_tool_call_buffer) : _tool_call_buffer[i].id = target
              /\ _tool_call_buffer' = WithDelta(_tool_call_buffer, target, e.text)
              /\ out' = <<>>
              /\ UNCHANGED <<_content_buffer, _last_tool_call>>]_vars

\* C20 witness: call-1 and call-2 started in that order, then a delta
\* without an id and a delta naming call-1: both chunks are in the
\* arguments of call-2, and call-1 has none.
C20_Witness ==
    /\ ~_final_message_only /\ lastOp = "feed"
    /\ hist = <<ToolCall("call-1", <<>>), ToolCall("call-2", <<>>),
                ToolCallPart(None, <<"x">>), ToolCallPart("call-1", <<"x">>)>>
    /\ _tool_call_buffer =
          <<[id |-> "call-1", arguments |-> <<>>, tool_result |-> None],
            [id |-> "call-2", arguments |-> <<"x", "x">>, tool_result |-> None]>>

\* the operations the claim C21 speaks of: a boundary, or flush() under the
\* full policy
ClearedBy(op) ==
    IF _final_message_only THEN op = "boundary" ELSE op \in {"boundary", "flush"}

\* C21: after every boundary and every flush() under the full policy, and
\* after every boundary under the final-only policy, the content buffer, the
\* tracker and the last-started pointer are empty; so the first event fed
\* after it meets nothing of the previous step: a content fragment becomes
\* a part of its own, and an argument delta or a tool result, even one for
\* a call started in the previous step, is dropped.
C21_NothingCrossesABoundary ==
    /\ [](ClearedBy(lastOp) =>
             /\ _content_buffer = <<>> /\ _tool_call_buffer = <<>>
             /\ _last_tool_call = None /\ hist = <<>>)
    /\ [][(ClearedBy(lastOp) /\ Len(hist') = 1) =>
             LET e == hist'[1] IN
             /\ out' = <<>>
             /\ e.type = "ContentPart" =>
                   _content_buffer' = <<[kind |-> e.kind, text |-> e.text]>>
             /\ e.type \in {"ToolCallPart", "ToolResult"} =>
                   UNCHANGED <<_content_buffer, _tool_call_buffer, _last_tool_call>>]_vars

\* C21 witness: a boundary under the full policy has closed a step that
\* held text, a call with a delta and no result, and left nothing behind.
C21_Witness ==
    /\ ~_final_message_only /\ lastOp = "boundary"
    /\ flushed = <<TextPart(<<"a">>), ToolCall("call-1", <<>>), ToolCallPart(None, <<"x">>)>>
    /\ Len(out) = 1
    /\ _content_buffer = <<>> /\ _tool_call_buffer = <<>> /\ _last_tool_call = None

\* C22: under the full policy, the content emitted so far followed by the
\* content still buffered is, character by character and kind by kind, the
\* content fed, in arrival order; and once the terminal flush() has
\* returned, the assistant messages emitted are, in order, one for each
\* step that held content or a call start, each holding its own step's
\* content: nothing is lost, duplicated, reordered or moved to another
\* step's message.
C22_ContentKeptInOrder ==
    ~_final_message_only =>
        LET msgs == Assistant(emitted)
            steps == SelectSeq(SplitSteps(fed), PendingNonEmpty)
        IN /\ CharsOf(Flatten([i \in 1..Len(msgs) |-> msgs[i].content]))
                  \o CharsOf(_content_buffer) = CharsOf(Fragments(fed))
           /\ lastOp = "flush" =>
                 /\ _content_buffer = <<>>
                 /\ Len(msgs) = Len(steps)
                 /\ \A i \in 1..Len(msgs) :
                       msgs[i].content = Runs(Fragments(steps[i]))

\* C22 witness: three steps of different content, the last closed by the
\* terminal flush(), have given three assistant messages in step order.
C22_Witness ==
    /\ ~_final_message_only /\ lastOp = "flush"
    /\ fed = <<TextPart(<<"a">>), StepBegin, ThinkPart(<<"t">>), StepInterrupted,
               TextPart(<<" ">>)>>
    /\ Len(emitted) = 3
    /\ extract_text(emitted[1].content) = <<"a">>
    /\ extract_text(emitted[3].content) = <<" ">>

\* C27: under the full policy, the messages any one feed() or flush()
\* returns are either none, or one assistant message followed by tool-role
\* messages only, as many as the assistant message lists tool calls, the
\* i-th tool message answering the i-th listed call: no tool message comes
\* without its call in the assistant message ahead of it.
C27_ToolMessagesFollowTheirCalls ==
    (~_final_message_only /\ out # <<>>) =>
        /\ lastOp \in {"boundary", "flush"}
        /\ out[1].role = "assistant"
        /\ \A i \in 2..Len(out) :
              /\ out[i].role = "tool"
              /\ out[i].tool_call_id \in Range(IdsOf(out[1].tool_calls))
        /\ [i \in 1..(Len(out) - 1) |-> out[i + 1].tool_call_id] = IdsOf(out[1].tool_calls)

\* C27 witness: a flush() whose assistant message lists call-1 and call-2
\* and is followed by the tool messages of call-1 and of call-2.
C27_Witness ==
    /\ ~_final_message_only /\ lastOp = "flush"
    /\ Len(out) = 3
    /\ IdsOf(out[1].tool_calls) = <<"call-1", "call-2">>
    /\ out[2].role = "tool" /\ out[2].tool_call_id = "call-1"
    /\ out[3].role = "tool" /\ out[3].tool_call_id = "call-2"

====
